---- MODULE Spec2Model ----
(***************************************************************************)
(* The scan page of the missing-person application (Scan component, its    *)
(* App parent and the geminiService match client) as a state machine.      *)
(* One action is one JavaScript task: an event handler, a timer callback   *)
(* or the continuation of an async function after an await, run to its     *)
(* next await.  React state is committed, and the effects of the render    *)
(* that follows are run, inside the action of the task that set it.        *)
(***************************************************************************)
EXTENDS Integers, Sequences, FiniteSets, TLC

(* ------------------------------ bounds -------------------------------- *)
MaxGestures == 3    \* operator gestures: source selections, STOP, RESTART
MaxRuns == 2
MaxSamples == 5     \* loop iterations (video positions, live cycles) of all runs together
MaxOverlap == 1     \* of these, iterations begun while another run is still alive
MaxLoadIter == 0    \* last iteration of a video run during which metadata still arrives

(* ------------------------- program constants -------------------------- *)
interval == 2
AcceptThreshold == 75
FallbackDuration == 100
ProgressCap == 99
LIVE == -1            \* the "LIVE" / "LIVE FEED" marker
STATIC == -2          \* the "Static Image" marker

(* The durations of the video files the operator can choose; 0 is NaN,     *)
(* the duration of a video element whose metadata has not loaded.          *)
Durations == {4, 10}
NaN == 0

(* ------------------------------ records ------------------------------- *)
Person(i, s) == [id |-> i, status |-> s]

InitPeople ==
    { << Person(2, "FOUND") >>,
      << Person(1, "MISSING"), Person(2, "FOUND") >>,
      << Person(1, "MISSING"), Person(2, "MISSING") >> }

Entry(t, w, k) == [tag |-> t, who |-> w, n |-> k]

NoBox == << >>
Box == << 100, 100, 200, 200 >>

Analysis(f, p, c, b, e) ==
    [found |-> f, personId |-> p, confidence |-> c, box_2d |-> b, explanation |-> e]

(* What the remote model can answer: personId 0 is null, 3 names no record *)
Responses ==
    { Analysis(FALSE, 0, 0, NoBox, "model"),
      Analysis(TRUE, 1, 75, Box, "model"),
      Analysis(TRUE, 1, 90, Box, "model"),
      Analysis(TRUE, 0, 90, NoBox, "model"),
      Analysis(TRUE, 3, 90, NoBox, "model") }

NullResult ==
    [set |-> FALSE, found |-> FALSE, personId |-> 0, confidence |-> 0,
     description |-> "", locationContext |-> 0, boundingBox |-> NoBox]

NoTimer ==
    [on |-> FALSE, mediaType |-> "none", mediaUrl |-> 0, roster |-> << >>, request |-> -1]

VARIABLES
    people,           \* App: the record store
    mediaUrl,         \* object URL of the selected file, 0 = null
    mediaType,        \* "none" (null), "image", "video", "stream"
    scanning,
    scanProgress,
    currentScanTime,  \* seconds, LIVE for the live marker
    scanLog,
    result,
    streamRef,        \* streamRef.current: a stream id, 0 = null
    stopScanRef,      \* stopScanRef.current
    srcObject,        \* webcamRef.current.srcObject: a stream id, 0 = null
    liveStreams,      \* acquired streams whose tracks have not been stopped
    nextStream,       \* streams acquired so far
    camPending,       \* getUserMedia requests not yet answered
    videoDuration,    \* video.duration of the <video> element, NaN until loadedmetadata
    fileDuration,     \* the true duration of the video file last given to the <video> element
    imageLoaded,      \* naturalWidth # 0 of the <img> element
    timer,            \* the auto-start timeout and the closure it calls
    runs,             \* the async scan functions started so far
    gestures,         \* gestures of the operator so far
    mounted,          \* the Scan component is rendered by App
    overlap           \* iterations begun while another run was still alive

vars ==
    << people, mediaUrl, mediaType, scanning, scanProgress, currentScanTime, scanLog,
       result, streamRef, stopScanRef, srcObject, liveStreams, nextStream, camPending,
       videoDuration, fileDuration, imageLoaded, timer, runs, gestures,
       mounted, overlap >>

media == << mediaUrl, mediaType, streamRef, srcObject, liveStreams, nextStream,
            camPending, videoDuration, fileDuration, imageLoaded >>

(* --------------------------- pure functions --------------------------- *)
missingPeople(ps) == SelectSeq(ps, LAMBDA p : p.status = "MISSING")

(* a variant that forgets to compare the identifier *)
handleUpdateStatusAll(ps, id, status) ==
    [i \in DOMAIN ps |-> [ps[i] EXCEPT !.status = status]]

handleUpdateStatus(ps, id, status) ==
    [i \in DOMAIN ps |-> IF ps[i].id = id THEN [ps[i] EXCEPT !.status = status] ELSE ps[i]]

(* a variant that starts the list again from the reported record *)
handleAddPersonReplacing(ps, person) == << person >>

(* App.handleAddPerson: setPeople([person, ...people]) *)
handleAddPerson(ps, person) == << person >> \o ps

Min(a, b) == IF a < b THEN a ELSE b

(* Math.round(x / y): the nearest integer, halves up *)
Round(x, y) == (2 * x + y) \div (2 * y)

Progress(currentTime, duration) ==
    Min(Round(currentTime * 100, duration), ProgressCap)

(* duration = video.duration || 100 *)
DurationOr(d) == IF d = NaN THEN FallbackDuration ELSE d

InRoster(roster, id) == \E i \in DOMAIN roster : roster[i].id = id

(* the refs React attaches for the committed render, null after unmount *)
videoRef == mounted /\ mediaType = "video" /\ mediaUrl # 0
imageRef == mounted /\ mediaType \in {"image", "none"} /\ mediaUrl # 0
webcamRef == mounted /\ mediaType = "stream"

(* the hidden canvas is rendered as long as the component is mounted *)
canvasRef == mounted

(* captureFrame: null without the canvas, and when the source has no width *)
(* or height yet                                                           *)
captureFrame(kind) ==
    /\ canvasRef
    /\ CASE kind = "video" -> videoDuration # NaN
         [] kind = "image" -> imageLoaded
         [] OTHER -> srcObject # 0

(* scanCrowdForBatch: the answer the run receives for a response of the    *)
(* service; error is a transport, service or parse failure                 *)
scanCrowdForBatch(roster, response, error) ==
    IF Len(roster) = 0 THEN Analysis(FALSE, 0, 0, NoBox, "empty")
    ELSE IF error THEN Analysis(FALSE, 0, 0, NoBox, "error")
    ELSE response

Accepts(analysis) == analysis.found /\ analysis.confidence > AcceptThreshold

(* `${x / 10}%`: the decimal number x / 10, as its floor and its tenths *)
Percent(x) == [whole |-> x \div 10, tenths |-> x % 10]

(* a variant that takes the far edges for the extent *)
getBoundingBoxStyleFromEdges(res) ==
    IF res.boundingBox = NoBox THEN << >>
    ELSE LET b == res.boundingBox
         IN  [top |-> Percent(b[1]), left |-> Percent(b[2]),
              height |-> Percent(b[3]), width |-> Percent(b[4])]

(* << >> is the empty style object *)
getBoundingBoxStyle(res) ==
    IF res.boundingBox = NoBox THEN << >>
    ELSE LET b == res.boundingBox
         IN  [top |-> Percent(b[1]), left |-> Percent(b[2]),
              height |-> Percent(b[3] - b[1]), width |-> Percent(b[4] - b[2])]

(* the overlay <div> of the committed render: its style, or "none" *)
Overlay(scn, res) ==
    IF ~scn /\ res.set /\ res.found /\ res.boundingBox # NoBox
    THEN getBoundingBoxStyle(res)
    ELSE "none"

(* ---------------- the component state a task can write ----------------- *)
Cur ==
    [scanning |-> scanning, scanProgress |-> scanProgress,
     currentScanTime |-> currentScanTime, scanLog |-> scanLog, result |-> result,
     people |-> people, stopScanRef |-> stopScanRef, runs |-> runs]

(* the setters of an unmounted component do nothing; App and the refs live on *)
Commit(S) ==
    /\ IF mounted
       THEN /\ scanning' = S.scanning
            /\ scanProgress' = S.scanProgress
            /\ currentScanTime' = S.currentScanTime
            /\ scanLog' = S.scanLog
            /\ result' = S.result
       ELSE UNCHANGED << scanning, scanProgress, currentScanTime, scanLog, result >>
    /\ people' = S.people
    /\ stopScanRef' = S.stopScanRef
    /\ runs' = S.runs

(* setScanLog(prev => [entry, ...prev]) *)
Log(S, e) == [S EXCEPT !.scanLog = << e >> \o @]

(* One async scan function.  roster is the missingPeople of the render     *)
(* whose closure started it.  nCalls, stoppedInCall, stoppedBetween and    *)
(* script are history: they record what happened and decide nothing.       *)
NewRun(kind, roster) ==
    [kind |-> kind, pc |-> "start", end |-> "", roster |-> roster,
     duration |-> 0, currentTime |-> 0, scanCount |-> 0,
     nCalls |-> 0, stoppedInCall |-> FALSE, stoppedBetween |-> FALSE, script |-> 0]

AddRun(S, kind, roster) == [S EXCEPT !.runs = Append(@, NewRun(kind, roster))]

Finish(S, r, why) == [S EXCEPT !.runs[r].pc = "done", !.runs[r].end = why]

(* await scanCrowdForBatch(missingPeople, frameBase64) *)
Dispatch(S, r) == [S EXCEPT !.runs[r].pc = "call", !.runs[r].nCalls = @ + 1]

handleScanResult(S, r, analysis, timestamp) ==
    IF analysis.found /\ analysis.personId # 0
    THEN [S EXCEPT
            !.result = [set |-> TRUE, found |-> TRUE, personId |-> analysis.personId,
                        confidence |-> analysis.confidence,
                        description |-> analysis.explanation,
                        locationContext |-> timestamp,
                        boundingBox |-> analysis.box_2d],
            !.people = handleUpdateStatus(@, analysis.personId, "FOUND"),
            !.scanLog = << Entry("MATCH CONFIRMED",
                                 IF InRoster(S.runs[r].roster, analysis.personId)
                                 THEN analysis.personId ELSE 0,
                                 analysis.confidence) >> \o @]
    ELSE [S EXCEPT
            !.result = [set |-> TRUE, found |-> FALSE, personId |-> 0, confidence |-> 0,
                        description |-> "No match found", locationContext |-> 0,
                        boundingBox |-> NoBox],
            !.scanLog = << Entry("Negative result.", 0, 0) >> \o @]

(* ------------------------------ image run ----------------------------- *)
runImageScan(S, r) ==
    IF ~imageRef THEN Finish(S, r, "noelem")
    ELSE [Log(S, Entry("Analyzing static image", 0, 0)) EXCEPT !.runs[r].pc = "imgDelay"]

(* after the 500 ms wait: captureFrame(imageRef.current) reads the width   *)
(* of null, and throws, when the <img> is no longer rendered               *)
imageCapture(S, r) ==
    IF canvasRef /\ ~imageRef THEN Finish(S, r, "threw")
    ELSE IF ~captureFrame("image")
    THEN Finish([Log(S, Entry("Error: Capture failed.", 0, 0)) EXCEPT !.scanning = FALSE],
                r, "captureFailed")
    ELSE Dispatch(S, r)

(* a variant that completes the progress bar only on a positive verdict *)
imageVerdictPositiveOnly(S, r, analysis) ==
    Finish([handleScanResult(S, r, analysis, STATIC) EXCEPT
              !.scanProgress = IF analysis.found THEN 100 ELSE @,
              !.scanning = FALSE],
           r, "image")

imageVerdict(S, r, analysis) ==
    Finish([handleScanResult(S, r, analysis, STATIC) EXCEPT
              !.scanProgress = 100, !.scanning = FALSE],
           r, "image")

(* ------------------------------ video run ----------------------------- *)
(* a variant that reports completion however the loop was left *)
videoLoopAlwaysCompletes(S, r) ==
    LET rn == S.runs[r] IN
    IF rn.currentTime < rn.duration /\ ~S.stopScanRef /\ videoRef
    THEN [S EXCEPT !.currentScanTime = rn.currentTime, !.runs[r].pc = "seek"]
    ELSE LET why == IF ~(rn.currentTime < rn.duration) THEN "exhausted"
                    ELSE IF S.stopScanRef THEN "cancelled" ELSE "unmounted"
             S1 == Finish([S EXCEPT !.scanning = FALSE], r, why)
         IN  Log([S1 EXCEPT !.scanProgress = 100], Entry("Scan complete.", 0, 0))

(* the head of the while loop, and what follows the loop *)
videoLoop(S, r) ==
    LET rn == S.runs[r] IN
    IF rn.currentTime < rn.duration /\ ~S.stopScanRef /\ videoRef
    THEN [S EXCEPT !.currentScanTime = rn.currentTime, !.runs[r].pc = "seek"]
    ELSE LET why == IF ~(rn.currentTime < rn.duration) THEN "exhausted"
                    ELSE IF S.stopScanRef THEN "cancelled" ELSE "unmounted"
             S1 == Finish([S EXCEPT !.scanning = FALSE], r, why)
         IN  IF ~S.stopScanRef
             THEN Log([S1 EXCEPT !.scanProgress = 100], Entry("Scan complete.", 0, 0))
             ELSE S1

videoStart(S, r) ==
    videoLoop([S EXCEPT !.runs[r].duration = DurationOr(videoDuration),
                        !.runs[r].currentTime = 0], r)

runVideoScan(S, r) ==
    IF ~videoRef THEN Finish(S, r, "noelem")
    ELSE IF videoDuration = NaN THEN [S EXCEPT !.runs[r].pc = "metaWait"]
    ELSE videoStart(S, r)

(* the end of an iteration: progress, currentTime += interval, loop head *)
videoAdvance(S, r) ==
    LET rn == S.runs[r] IN
    videoLoop([S EXCEPT !.scanProgress = Progress(rn.currentTime, rn.duration),
                        !.runs[r].currentTime = rn.currentTime + interval], r)

(* a variant that sends whatever captureFrame returned *)
videoCaptureUnchecked(S, r) ==
    Dispatch(Log(S, Entry("Scanning Frame", Len(S.runs[r].roster),
                          S.runs[r].currentTime)), r)

videoCapture(S, r) ==
    IF captureFrame("video")
    THEN Dispatch(Log(S, Entry("Scanning Frame", Len(S.runs[r].roster),
                              S.runs[r].currentTime)), r)
    ELSE videoAdvance(S, r)

(* a variant that records an accepted verdict and keeps sampling *)
videoVerdictKeepsSampling(S, r, analysis) ==
    IF Accepts(analysis)
    THEN videoAdvance(handleScanResult(S, r, analysis, S.runs[r].currentTime), r)
    ELSE videoAdvance(S, r)

videoVerdict(S, r, analysis) ==
    IF Accepts(analysis)
    THEN Finish([handleScanResult(S, r, analysis, S.runs[r].currentTime) EXCEPT
                   !.scanning = FALSE],
                r, "accepted")
    ELSE videoAdvance(S, r)

(* ------------------------------ live run ------------------------------ *)
liveAdvance(S, r) ==
    [S EXCEPT !.runs[r].scanCount = @ + 1,
              !.scanProgress = ((S.runs[r].scanCount + 1) % 10) * 10,
              !.runs[r].pc = "delay"]

liveLoop(S, r) ==
    IF S.stopScanRef THEN Finish([S EXCEPT !.scanning = FALSE], r, "cancelled")
    ELSE IF ~webcamRef THEN Finish([S EXCEPT !.scanning = FALSE], r, "unmounted")
    ELSE IF captureFrame("stream")
    THEN Dispatch(Log(S, Entry("Live Cycle", Len(S.runs[r].roster),
                              S.runs[r].scanCount)), r)
    ELSE liveAdvance(S, r)

runWebcamScan(S, r) ==
    IF ~webcamRef THEN Finish(S, r, "noelem") ELSE liveLoop(S, r)

(* a variant that treats the stream as a single pass *)
liveVerdictSinglePass(S, r, analysis) ==
    IF Accepts(analysis)
    THEN Finish([handleScanResult(S, r, analysis, LIVE) EXCEPT !.scanning = FALSE],
                r, "accepted")
    ELSE Finish([S EXCEPT !.scanning = FALSE], r, "exhausted")

liveVerdict(S, r, analysis) ==
    IF Accepts(analysis)
    THEN Finish([handleScanResult(S, r, analysis, LIVE) EXCEPT !.scanning = FALSE],
                r, "accepted")
    ELSE liveAdvance(S, r)

(* ------------------------------ triggerScan --------------------------- *)
(* cl is the closure of the render that created this triggerScan: its      *)
(* mediaType, mediaUrl and missingPeople                                   *)
triggerScan(S, cl) ==
    IF Len(cl.roster) = 0
    THEN Log(S, Entry("ABORT: Database empty.", 0, 0))
    ELSE IF cl.mediaType = "stream" /\ streamRef = 0 THEN S
    ELSE IF cl.mediaType # "stream" /\ cl.mediaUrl = 0 THEN S
    ELSE LET S1 == [S EXCEPT !.scanning = TRUE, !.stopScanRef = FALSE,
                             !.result = NullResult]
             r == Len(S.runs) + 1
             Started(kind) ==
                 AddRun(Log(S1, Entry("AUTO-START", Len(cl.roster), 0)), kind, cl.roster)
         IN  CASE cl.mediaType = "stream" -> runWebcamScan(Started("stream"), r)
               [] cl.mediaType = "video" -> runVideoScan(Started("video"), r)
               [] cl.mediaType = "image" -> runImageScan(Started("image"), r)
               [] OTHER -> S1

Closure(type, url, ps) ==
    [on |-> TRUE, mediaType |-> type, mediaUrl |-> url, roster |-> missingPeople(ps),
     request |-> -1]

(* the auto-start effect of the render that follows a change of            *)
(* [mediaType, mediaUrl]: the cleanup clears the old timeout               *)
AutoStart(type, url, scn, stop, ps) ==
    IF <<type, url>> = <<mediaType, mediaUrl>> THEN timer
    ELSE IF type # "none" /\ ~scn /\ ~stop THEN Closure(type, url, ps)
    ELSE NoTimer

(* ------------------------------- Init --------------------------------- *)
Init ==
    /\ people \in InitPeople
    /\ mediaUrl = 0
    /\ mediaType = "none"
    /\ scanning = FALSE
    /\ scanProgress = 0
    /\ currentScanTime = 0
    /\ scanLog = << >>
    /\ result = NullResult
    /\ streamRef = 0
    /\ stopScanRef = FALSE
    /\ srcObject = 0
    /\ liveStreams = {}
    /\ nextStream = 0
    /\ camPending = 0
    /\ videoDuration = NaN
    /\ fileDuration = NaN
    /\ imageLoaded = FALSE
    /\ timer = NoTimer
    /\ runs = << >>
    /\ gestures = 0
    /\ mounted = TRUE
    /\ overlap = 0

(* --------------------------- operator gestures ------------------------ *)
Gesture ==
    /\ mounted /\ gestures < MaxGestures
    /\ gestures' = gestures + 1 /\ overlap' = overlap /\ mounted' = mounted

(* stopWebcam: stop every track of the held stream and unbind the element *)
stopWebcam ==
    /\ liveStreams' = liveStreams \ {streamRef}
    /\ streamRef' = 0
    /\ srcObject' = 0

(* a file is chosen: kind by its MIME type, d the duration of a video file *)
HandleFileSelect(kind, d) ==
    /\ stopWebcam
    /\ mediaUrl' = gestures + 1
    /\ mediaType' = kind
    /\ result' = NullResult
    /\ scanLog' = << Entry("Media loaded.", 0, 0) >>
    /\ scanProgress' = 0
    /\ currentScanTime' = 0
    /\ stopScanRef' = FALSE
    /\ videoDuration' = IF kind = "video" THEN NaN ELSE videoDuration
    /\ fileDuration' = IF kind = "video" THEN d ELSE fileDuration
    /\ imageLoaded' = FALSE
    /\ timer' = AutoStart(kind, gestures + 1, scanning, FALSE, people)
    /\ Gesture
    /\ UNCHANGED << people, scanning, nextStream, camPending, runs >>

(* the "Upload File" button *)
UploadFileClick ==
    /\ stopWebcam
    /\ mediaUrl' = 0
    /\ mediaType' = "none"
    /\ timer' = AutoStart("none", 0, scanning, stopScanRef, people)
    /\ Gesture
    /\ UNCHANGED << people, scanning, scanProgress, currentScanTime, scanLog, result,
                    stopScanRef, nextStream, camPending, videoDuration, fileDuration,
                    imageLoaded, runs >>

(* enableWebcam up to its await: the "Live Camera" button *)
EnableWebcam ==
    /\ mediaUrl' = 0
    /\ timer' = LET t == AutoStart(mediaType, 0, scanning, stopScanRef, people)
                IN  IF t.on /\ ~timer.on THEN [t EXCEPT !.request = nextStream] ELSE t
    /\ camPending' = camPending + 1
    /\ Gesture
    /\ UNCHANGED << people, mediaType, scanning, scanProgress, currentScanTime, scanLog,
                    result, streamRef, stopScanRef, srcObject, liveStreams, nextStream,
                    videoDuration, fileDuration, imageLoaded, runs >>

(* getUserMedia resolves: the rest of the try block *)
CameraGranted ==
    /\ camPending > 0
    /\ camPending' = camPending - 1
    /\ nextStream' = nextStream + 1
    /\ liveStreams' = liveStreams \cup {nextStream + 1}
    /\ streamRef' = nextStream + 1
    /\ srcObject' = IF webcamRef THEN nextStream + 1 ELSE srcObject
    /\ stopScanRef' = FALSE
    /\ IF mounted
       THEN /\ mediaType' = "stream"
            /\ result' = NullResult
            /\ scanLog' = << Entry("Webcam initialized.", 0, 0) >>
            /\ scanProgress' = 0
            /\ currentScanTime' = LIVE
            /\ timer' = AutoStart("stream", mediaUrl, scanning, FALSE, people)
       ELSE UNCHANGED << mediaType, result, scanLog, scanProgress, currentScanTime, timer >>
    /\ UNCHANGED << people, mediaUrl, scanning, videoDuration, fileDuration, imageLoaded,
                    runs, gestures, mounted, overlap >>

(* getUserMedia rejects: the catch block *)
CameraDenied ==
    /\ camPending > 0
    /\ camPending' = camPending - 1
    /\ scanLog' = IF mounted
                  THEN << Entry("Error: Could not access webcam.", 0, 0) >> \o scanLog
                  ELSE scanLog
    /\ UNCHANGED << people, mediaUrl, mediaType, scanning, scanProgress, currentScanTime,
                    result, streamRef, stopScanRef, srcObject, liveStreams, nextStream,
                    videoDuration, fileDuration, imageLoaded, timer, runs, gestures,
                    mounted, overlap >>

(* the STOP button is rendered while mediaType && scanning *)
StopScan ==
    /\ mediaType # "none" /\ scanning
    /\ stopScanRef' = TRUE
    /\ scanning' = FALSE
    /\ scanLog' = << Entry("Scan terminated by user.", 0, 0) >> \o scanLog
    /\ runs' = [r \in DOMAIN runs |->
                  [runs[r] EXCEPT
                     !.stoppedInCall = @ \/ runs[r].pc = "call",
                     !.stoppedBetween = @ \/ runs[r].pc = "delay"]]
    /\ Gesture
    /\ UNCHANGED << people, scanProgress, currentScanTime, result, timer >>
    /\ UNCHANGED media

(* the RESTART button is rendered while mediaType && !scanning; its        *)
(* triggerScan is the one of the latest render                             *)
RestartScan ==
    /\ Len(runs) < MaxRuns
    /\ mediaType # "none" /\ ~scanning
    /\ Commit(triggerScan([Cur EXCEPT !.stopScanRef = FALSE],
                          Closure(mediaType, mediaUrl, people)))
    /\ Gesture
    /\ UNCHANGED timer
    /\ UNCHANGED media

(* a variant that treats the acknowledgement as a reset of the panel *)
DismissAndReset ==
    /\ mounted
    /\ ~scanning /\ result.set /\ result.found
    /\ \E i \in DOMAIN people : people[i].id = result.personId
    /\ result' = NullResult
    /\ scanProgress' = 0
    /\ scanLog' = << >>
    /\ UNCHANGED << people, scanning, currentScanTime,
                    stopScanRef, timer, runs, gestures, mounted, overlap >>
    /\ UNCHANGED media

(* the Acknowledge button of the result popover *)
Dismiss ==
    /\ mounted
    /\ ~scanning /\ result.set /\ result.found
    /\ \E i \in DOMAIN people : people[i].id = result.personId
    /\ result' = NullResult
    /\ UNCHANGED << people, scanning, scanProgress, currentScanTime, scanLog,
                    stopScanRef, timer, runs, gestures, mounted, overlap >>
    /\ UNCHANGED media

(* App renders another view: the refs of the elements are cleared, the     *)
(* cleanup of the auto-start effect clears its timeout, and the cleanup of *)
(* the mount effect runs stopWebcam                                        *)
Unmount ==
    /\ stopWebcam
    /\ timer' = NoTimer
    /\ mounted' = FALSE
    /\ mounted /\ gestures < MaxGestures
    /\ gestures' = gestures + 1
    /\ UNCHANGED << people, mediaUrl, mediaType, scanning, scanProgress, currentScanTime,
                    scanLog, result, stopScanRef, nextStream, camPending, videoDuration,
                    fileDuration, imageLoaded, runs, overlap >>

(* the identifier crypto.randomUUID() gives the reported record: one that  *)
(* no record has and that no answer of the service names                   *)
NewId == 4

(* Report.handleSubmit, on the Report view, which App shows in place of    *)
(* the scan component: a record with status MISSING is handed to           *)
(* onAddPerson                                                             *)
handleSubmit ==
    /\ ~mounted
    /\ \A i \in DOMAIN people : people[i].id # NewId
    /\ people' = handleAddPerson(people, Person(NewId, "MISSING"))
    /\ UNCHANGED << scanning, scanProgress, currentScanTime, scanLog, result,
                    stopScanRef, timer, runs, gestures, mounted, overlap >>
    /\ UNCHANGED media

(* ------------------------------ the browser --------------------------- *)
(* loop iterations completed so far, over all runs *)
Iterations(rn) ==
    IF rn.kind = "video" THEN rn.currentTime \div interval ELSE rn.scanCount

RECURSIVE Samples(_)
Samples(i) == IF i = 0 THEN 0 ELSE Iterations(runs[i]) + Samples(i - 1)

Alive == { r \in DOMAIN runs : runs[r].pc # "done" }

Budget ==
    /\ Samples(Len(runs)) < MaxSamples
    /\ Cardinality(Alive) > 1 => overlap < MaxOverlap

Iterate(S) ==
    /\ Budget
    /\ Commit(S)
    /\ overlap' = IF Cardinality(Alive) > 1 THEN overlap + 1 ELSE overlap
    /\ UNCHANGED << timer, gestures, mounted >>
    /\ UNCHANGED media

(* the 800 ms auto-start timeout fires *)
AutoStartFires ==
    /\ timer.on
    /\ Len(runs) < MaxRuns
    /\ Commit(triggerScan(Cur, timer))
    /\ timer' = NoTimer
    /\ UNCHANGED << gestures, mounted, overlap >>
    /\ UNCHANGED media

LoadedMetadata ==
    /\ videoRef /\ videoDuration = NaN /\ fileDuration # NaN
    /\ \A r \in Alive : runs[r].kind = "video" => Iterations(runs[r]) <= MaxLoadIter
    /\ videoDuration' = fileDuration
    /\ UNCHANGED << people, mediaUrl, mediaType, scanning, scanProgress, currentScanTime,
                    scanLog, result, streamRef, stopScanRef, srcObject, liveStreams,
                    nextStream, camPending, fileDuration, imageLoaded, timer, runs,
                    gestures, mounted, overlap >>

ImageLoaded ==
    /\ imageRef /\ ~imageLoaded
    /\ imageLoaded' = TRUE
    /\ UNCHANGED << people, mediaUrl, mediaType, scanning, scanProgress, currentScanTime,
                    scanLog, result, streamRef, stopScanRef, srcObject, liveStreams,
                    nextStream, camPending, videoDuration, fileDuration, timer, runs,
                    gestures, mounted, overlap >>

(* ------------------------- continuations of runs ---------------------- *)
Step(S) ==
    Commit(S) /\ UNCHANGED << timer, gestures, mounted, overlap >> /\ UNCHANGED media

At(r, kind, pc) == runs[r].kind = kind /\ runs[r].pc = pc

(* runImageScan after the 500 ms wait *)
ImageDelayElapsed(r) == At(r, "image", "imgDelay") /\ Step(imageCapture(Cur, r))

(* runVideoScan after the 1000 ms wait for metadata *)
MetadataWaitElapsed(r) == At(r, "video", "metaWait") /\ Step(videoStart(Cur, r))

(* the seek wait ends with the seeked event ... *)
Seeked(r) ==
    /\ At(r, "video", "seek")
    /\ videoDuration # NaN
    /\ Iterate(videoCapture(Cur, r))

(* a variant whose wait has no fallback timer: only the event ends it *)
SeekWithoutFallback(r) ==
    /\ At(r, "video", "seek")
    /\ videoDuration # NaN
    /\ Iterate(videoCapture(Cur, r))

(* ... or with the 800 ms fallback *)
SeekTimeout(r) ==
    /\ At(r, "video", "seek")
    /\ Iterate(videoCapture(Cur, r))

(* runWebcamScan after the 2000 ms wait between cycles *)
CycleDelayElapsed(r) ==
    /\ At(r, "stream", "delay")
    /\ Iterate(liveLoop(Cur, r))

(* The scenario of the specification's section 8: roster [1: MISSING], a   *)
(* video of 10 s, not found at 0, 2 and 4 s, record 1 found with           *)
(* confidence 90 at 6 s.  script counts the verdicts of a run that have    *)
(* followed it so far, -1 once the run has left it.                        *)
Scenario ==
    [roster |-> << Person(1, "MISSING") >>, duration |-> 10, hitAt |-> 6,
     hit |-> Analysis(TRUE, 1, 90, Box, "model")]

Follows(rn, analysis) ==
    /\ rn.kind = "video" /\ rn.roster = Scenario.roster /\ rn.duration = Scenario.duration
    /\ rn.script = rn.currentTime \div interval
    /\ rn.currentTime <= Scenario.hitAt
    /\ IF rn.currentTime = Scenario.hitAt THEN analysis = Scenario.hit ELSE ~analysis.found

(* history of a handled verdict *)
Handled(S, r, analysis) ==
    [S EXCEPT !.runs[r].stoppedInCall = FALSE,
              !.runs[r].script = IF Follows(runs[r], analysis) THEN runs[r].script + 1
                                 ELSE -1]

(* the await of scanCrowdForBatch returns *)
Verdict(r, analysis) ==
    CASE runs[r].kind = "image" -> imageVerdict(Cur, r, analysis)
      [] runs[r].kind = "video" -> videoVerdict(Cur, r, analysis)
      [] OTHER -> liveVerdict(Cur, r, analysis)

MatchReturns(r, response) ==
    /\ runs[r].pc = "call"
    /\ LET analysis == scanCrowdForBatch(runs[r].roster, response, FALSE)
       IN  Step(Handled(Verdict(r, analysis), r, analysis))

MatchFails(r) ==
    /\ runs[r].pc = "call"
    /\ LET analysis == scanCrowdForBatch(runs[r].roster, Analysis(FALSE, 0, 0, NoBox, ""),
                                         TRUE)
       IN  Step(Handled(Verdict(r, analysis), r, analysis))

Next ==
    \/ \E kind \in {"image", "video"} :
         \E d \in IF kind = "video" THEN Durations ELSE {NaN} : HandleFileSelect(kind, d)
    \/ UploadFileClick
    \/ EnableWebcam
    \/ CameraGranted
    \/ CameraDenied
    \/ StopScan
    \/ RestartScan
    \/ Dismiss
    \/ Unmount
    \/ handleSubmit
    \/ AutoStartFires
    \/ LoadedMetadata
    \/ ImageLoaded
    \/ \E r \in DOMAIN runs : ImageDelayElapsed(r)
    \/ \E r \in DOMAIN runs : MetadataWaitElapsed(r)
    \/ \E r \in DOMAIN runs : Seeked(r)
    \/ \E r \in DOMAIN runs : SeekTimeout(r)
    \/ \E r \in DOMAIN runs : CycleDelayElapsed(r)
    \/ \E r \in DOMAIN runs : MatchFails(r)
    \/ \E r \in DOMAIN runs : \E response \in Responses : MatchReturns(r, response)

Spec == Init /\ [][Next]_vars

(* ----------------- the overlay over stored results -------------------- *)
(* The page showing a stored result with any bounding box on the 0-1000    *)
(* scale; the operator can acknowledge it.                                 *)
Coords == {0, 5, 100, 200, 1000}

StoredResults ==
    { [set |-> TRUE, found |-> f, personId |-> 1, confidence |-> 90,
       description |-> "model", locationContext |-> 0, boundingBox |-> b] :
        f \in BOOLEAN,
        b \in {NoBox} \cup { << y1, x1, y2, x2 >> : y1 \in Coords, x1 \in Coords,
                                                     y2 \in Coords, x2 \in Coords } }

InitOverlay ==
    /\ people = << Person(1, "FOUND"), Person(2, "FOUND") >>
    /\ mediaUrl = 1
    /\ mediaType = "image"
    /\ scanning \in BOOLEAN
    /\ scanProgress = 100
    /\ currentScanTime = 0
    /\ scanLog = << >>
    /\ result \in StoredResults
    /\ streamRef = 0
    /\ stopScanRef = FALSE
    /\ srcObject = 0
    /\ liveStreams = {}
    /\ nextStream = 0
    /\ camPending = 0
    /\ videoDuration = NaN
    /\ fileDuration = NaN
    /\ imageLoaded = TRUE
    /\ timer = NoTimer
    /\ runs = << >>
    /\ gestures = MaxGestures
    /\ mounted = TRUE
    /\ overlap = 0

NextOverlay == Dismiss

SpecOverlay == InitOverlay /\ [][NextOverlay]_vars

(* One automatically started run over a chosen video file.  The metadata   *)
(* may never load, and then the element never fires seeked.  Timers fire   *)
(* and the awaited call settles (scanCrowdForBatch catches its errors), so *)
(* those steps are weakly fair; the operator and the element are not.      *)
InitSeek ==
    /\ people \in InitPeople
    /\ mediaUrl = 1
    /\ mediaType = "video"
    /\ scanning = FALSE
    /\ scanProgress = 0
    /\ currentScanTime = 0
    /\ scanLog = << Entry("Media loaded.", 0, 0) >>
    /\ result = NullResult
    /\ streamRef = 0
    /\ stopScanRef = FALSE
    /\ srcObject = 0
    /\ liveStreams = {}
    /\ nextStream = 0
    /\ camPending = 0
    /\ videoDuration = NaN
    /\ fileDuration \in Durations
    /\ imageLoaded = FALSE
    /\ timer = Closure("video", 1, people)
    /\ runs = << >>
    /\ gestures = 1
    /\ mounted = TRUE
    /\ overlap = 0

RunSteps ==
    \/ \E r \in DOMAIN runs : MetadataWaitElapsed(r)
    \/ \E r \in DOMAIN runs : SeekTimeout(r)
    \/ \E r \in DOMAIN runs : MatchFails(r)
    \/ \E r \in DOMAIN runs : \E response \in Responses : MatchReturns(r, response)

NextSeek ==
    \/ AutoStartFires
    \/ LoadedMetadata
    \/ \E r \in DOMAIN runs : Seeked(r)
    \/ StopScan
    \/ Unmount
    \/ RunSteps

SpecSeek == InitSeek /\ [][NextSeek]_vars /\ WF_vars(RunSteps)

(* ----------------------------- properties ----------------------------- *)
InFlight == { r \in DOMAIN runs : runs[r].pc = "call" }

StatusOf(ps, id) == { ps[i].status : i \in { j \in DOMAIN ps : ps[j].id = id } }

(* the step prepends a confirmation entry to the log *)
Confirms ==
    /\ Len(scanLog') > Len(scanLog)
    /\ \E i \in 1 .. Len(scanLog') - Len(scanLog) : scanLog'[i].tag = "MATCH CONFIRMED"

(* the log of the state before the step is still the tail of the log after it *)
KeepsLog ==
    /\ Len(scanLog') >= Len(scanLog)
    /\ SubSeq(scanLog', Len(scanLog') - Len(scanLog) + 1, Len(scanLog')) = scanLog

(* a step of triggerScan: the auto-start timeout, or RESTART *)
Triggers == AutoStartFires \/ RestartScan

(* C1: at most one Match Client call is in flight at any time *)
C1_AtMostOneCallInFlight == Cardinality(InFlight) <= 1

(* C2: the verdict of a call that was in flight when STOP was pressed is    *)
(* discarded: handling it stores no result, changes no status and logs no   *)
(* confirmation                                                            *)
C2_StoppedVerdictDiscarded ==
    [][\A r \in DOMAIN runs :
         runs[r].pc = "call" /\ runs[r].stoppedInCall /\ runs'[r].pc # "call"
         => result' = result /\ people' = people /\ ~Confirms]_vars

(* C3: STOP leaves the component not scanning, and a live run that was      *)
(* stopped while waiting between two cycles dispatches no further call      *)
C3_CancelBetweenIterations ==
    [][/\ StopScan => ~scanning'
       /\ \A r \in DOMAIN runs :
            runs[r].stoppedBetween => runs'[r].nCalls = runs[r].nCalls]_vars

(* C4: a RESTART after a finished run starts the new run with progress 0,   *)
(* without the earlier log entries and without a stored result              *)
C4_RestartResets ==
    [][RestartScan /\ Len(runs') > Len(runs)
       /\ (\E r \in DOMAIN runs : runs[r].pc = "done")
       => /\ scanProgress' = 0
          /\ result' = NullResult
          /\ Len(scanLog) > 0 => ~KeepsLog]_vars

(* C5: a stored found result always has confidence above the threshold,     *)
(* whatever the kind of the run that stored it                              *)
C5_AcceptedAboveThreshold ==
    result.set /\ result.found => result.confidence > AcceptThreshold

(* C6: a triggerScan while no record is MISSING starts no run, leaves the   *)
(* scanning state alone and logs the abort                                  *)
C6_EmptyRosterAborts ==
    [][Triggers /\ missingPeople(people) = << >>
       => /\ runs' = runs
          /\ scanning' = scanning
          /\ scanLog' = << Entry("ABORT: Database empty.", 0, 0) >> \o scanLog]_vars

(* C7 as stated: every image run ends with exactly one call made, progress  *)
(* 100 and not scanning                                                     *)
C7_ImageRunAlwaysCompletes ==
    [][\A r \in DOMAIN runs :
         runs[r].kind = "image" /\ runs[r].pc # "done" /\ runs'[r].pc = "done"
         => runs'[r].nCalls = 1 /\ scanProgress' = 100 /\ ~scanning']_vars

(* C7 amended: an image run dispatches its single call exactly when the     *)
(* capture succeeds; when that call returns, STOP was not pressed while it  *)
(* was in flight and the component is still mounted, the run ends with      *)
(* progress 100 and not scanning, whatever the verdict; a run whose capture *)
(* fails ends with no call made                                             *)
C7_CapturedImageRunCompletes ==
    [][\A r \in DOMAIN runs :
         runs[r].kind = "image"
         => /\ runs'[r].nCalls <= 1
            /\ runs[r].pc = "imgDelay" /\ runs'[r].pc # "imgDelay"
               => IF imageRef /\ imageLoaded
                  THEN runs'[r].pc = "call" /\ runs'[r].nCalls = 1
                  ELSE runs'[r].pc = "done" /\ runs'[r].nCalls = 0
            /\ runs[r].pc = "call" /\ runs'[r].pc # "call" /\ ~runs[r].stoppedInCall
               => /\ runs'[r].pc = "done" /\ runs'[r].nCalls = 1
                  /\ mounted => scanProgress' = 100 /\ ~scanning' /\ result'.set]_vars

(* an image run has completed on a verdict that was not accepted *)
C7_Witness ==
    mounted /\ \E r \in DOMAIN runs :
        /\ runs[r].kind = "image" /\ runs[r].end = "image" /\ runs[r].nCalls = 1
        /\ scanProgress = 100 /\ ~scanning /\ result.set /\ ~result.found

(* C8: a video run that ends while the cancellation flag is not set ends    *)
(* on an accepted verdict or with every position below the duration sampled *)
C8_VideoEndsOnAcceptOrExhaustion ==
    [][\A r \in DOMAIN runs :
         /\ runs[r].kind = "video" /\ runs[r].pc # "done" /\ runs'[r].pc = "done"
         /\ ~stopScanRef
         => \/ runs[r].pc = "call" /\ runs'[r].currentTime = runs[r].currentTime
            \/ runs'[r].currentTime >= runs'[r].duration]_vars

(* C9: the positions of a video run start at 0, advance by the interval and *)
(* never exceed the duration of the video being scanned                     *)
C9_PositionsWithinDuration ==
    [][\A r \in DOMAIN runs' :
         runs'[r].kind = "video" /\ runs'[r].pc \in {"seek", "call"}
         => /\ runs'[r].currentTime <= fileDuration'
            /\ IF r \in DOMAIN runs
               THEN runs'[r].currentTime \in
                        {runs[r].currentTime, runs[r].currentTime + interval}
               ELSE runs'[r].currentTime = 0]_vars

(* C10: when the verdict that completes the scenario is handled, four calls *)
(* have been made, the run ends at 6 s, record 1 is FOUND and, the          *)
(* component being mounted, it is not scanning and a confirmation is        *)
(* logged; the run makes no call afterwards                                 *)
C10_Scenario ==
    [][\A r \in DOMAIN runs :
         /\ runs'[r].script = 4
            => /\ runs'[r].pc = "done" /\ runs'[r].nCalls = 4
               /\ runs'[r].currentTime = Scenario.hitAt
         /\ runs[r].script = 3 /\ runs'[r].script = 4
            => /\ StatusOf(people', 1) = {"FOUND"}
               /\ mounted => /\ ~scanning'
                             /\ Confirms
                             /\ result'.found /\ result'.personId = 1]_vars

(* a run has gone through the whole scenario *)
C10_Witness == mounted /\ \E r \in DOMAIN runs : runs[r].script = 4

(* a live run ends in this step without having accepted a verdict *)
LiveEndsUnaccepted(r) ==
    /\ runs[r].kind = "stream" /\ runs[r].pc # "done"
    /\ runs'[r].pc = "done" /\ runs'[r].end # "accepted"

C12_AtMostOneLiveStream == Cardinality(liveStreams) <= 1

(* C13: once the component is unmounted no camera stream it acquired is     *)
(* left with tracks that have not been stopped                              *)
C13_NoLiveStreamAfterUnmount == ~mounted => liveStreams = {}

(* C14: a step of a run that was started over a source of another kind than *)
(* the one now selected changes neither progress, log nor result            *)
C14_NoUpdateFromPreviousSource ==
    [][\A r \in DOMAIN runs :
         /\ runs[r].pc # "done" /\ runs'[r].pc # runs[r].pc
         /\ runs[r].kind # mediaType /\ mounted
         => UNCHANGED << scanProgress, scanLog, result >>]_vars

(* C15: when a video or live run ends on an accepted verdict, the verdict   *)
(* is stored as a found result, its record is FOUND and the newest log      *)
(* entry is a confirmation naming that record                               *)
C15_AcceptedVerdictRecorded ==
    [][\A r \in DOMAIN runs :
         /\ runs[r].kind \in {"video", "stream"}
         /\ runs[r].pc = "call" /\ runs'[r].end = "accepted" /\ mounted
         => \E v \in Responses :
              /\ Accepts(v)
              /\ result'.set /\ result'.found /\ result'.personId = v.personId
              /\ result'.confidence = v.confidence
              /\ result'.description = v.explanation
              /\ result'.boundingBox = v.box_2d
              /\ StatusOf(people', v.personId) = {"FOUND"}
              /\ Confirms /\ scanLog'[1].who = v.personId]_vars

(* the calls run r has dispatched before this step *)
CallsBefore(r) == IF r \in DOMAIN runs THEN runs[r].nCalls ELSE 0

(* C16: the roster of every call is the list of the records that are        *)
(* MISSING when the call is dispatched                                      *)
C16_RosterIsCurrentMissing ==
    [][\A r \in DOMAIN runs' :
         runs'[r].nCalls > CallsBefore(r)
         => runs'[r].roster = missingPeople(people')]_vars

(* C17: a failed call of a video or live run stores nothing, adds an entry  *)
(* about the failure to the log, and the run goes on to its next sample     *)
C17_FailedCallLoggedAndSkipped ==
    [][\A r \in DOMAIN runs :
         MatchFails(r) /\ runs[r].kind \in {"video", "stream"} /\ mounted
         => /\ result' = result /\ people' = people
            /\ Len(scanLog') > Len(scanLog) /\ ~Confirms
            /\ runs'[r].pc = "done" => runs'[r].end # "accepted"]_vars

(* the record list after a request to set the status of record id to FOUND *)
Marked(ps, id) ==
    [i \in DOMAIN ps |-> IF ps[i].id = id THEN [ps[i] EXCEPT !.status = "FOUND"] ELSE ps[i]]

(* C18: the scan engine changes the record list only by setting the record *)
(* whose identifier was matched to FOUND; the other records, the order and  *)
(* the length stay                                                          *)
C18_OnlyMatchedRecordBecomesFound ==
    [][people' # people /\ ~handleSubmit
       => /\ \E id \in {1, 2, 3} : people' = Marked(people, id)
          /\ mounted => result'.found /\ people' = Marked(people, result'.personId)]_vars

(* record 1 was matched and set to FOUND, record 2 is still MISSING *)
C18_Witness ==
    /\ result.set /\ result.found /\ result.personId = 1
    /\ people = << Person(1, "FOUND"), Person(2, "MISSING") >>

(* the tenths of a percent a style value stands for *)
Tenths(p) == 10 * p.whole + p.tenths

(* C19: a stored box [ymin, xmin, ymax, xmax] is drawn at top ymin/10 %,    *)
(* left xmin/10 %, height (ymax-ymin)/10 % and width (xmax-xmin)/10 %; box  *)
(* [100,100,200,200] gives 10 % four times; without a box nothing is drawn  *)
C19_OverlayFromBox ==
    LET b == result.boundingBox
        style == getBoundingBoxStyle(result)
    IN  /\ b = NoBox => Overlay(scanning, result) = "none" /\ style = << >>
        /\ b # NoBox
           => /\ Tenths(style.top) = b[1] /\ Tenths(style.left) = b[2]
              /\ Tenths(style.height) = b[3] - b[1]
              /\ Tenths(style.width) = b[4] - b[2]
              /\ \A k \in DOMAIN style : style[k].tenths \in 0 .. 9
              /\ ~scanning /\ result.found => Overlay(scanning, result) = style
        /\ b = Box => style = [top |-> Percent(100), left |-> Percent(100),
                               height |-> Percent(100), width |-> Percent(100)]
                      /\ Percent(100) = [whole |-> 10, tenths |-> 0]

(* the scenario's box is stored and drawn *)
C19_Witness ==
    /\ result.set /\ result.found /\ result.boundingBox = Box /\ ~scanning
    /\ Overlay(scanning, result).top = [whole |-> 10, tenths |-> 0]

(* C20: a video run that runs out of positions without an accepted verdict, *)
(* the flag not being set, ends not scanning with progress 100 and a stored *)
(* result that is not found                                                 *)
C20_ExhaustedVideoStoresNotFound ==
    [][\A r \in DOMAIN runs :
         /\ runs[r].kind = "video" /\ runs[r].pc # "done"
         /\ runs'[r].pc = "done" /\ runs'[r].end = "exhausted"
         /\ ~stopScanRef /\ mounted
         => /\ ~scanning' /\ scanProgress' = 100
            /\ result'.set /\ ~result'.found]_vars

(* a video run ends in this step at the head of its loop, the flag set *)
VideoEndsCancelled(r) ==
    /\ runs[r].kind = "video" /\ runs[r].pc # "done" /\ runs'[r].pc = "done"
    /\ runs'[r].end # "accepted" /\ stopScanRef

(* C21: a video run that finds the cancellation flag set at the head of its *)
(* loop ends without setting progress to 100, without a completion entry    *)
(* and without storing a result                                             *)
C21_CancelledVideoEmitsNothing ==
    [][\A r \in DOMAIN runs :
         VideoEndsCancelled(r) /\ mounted
         => /\ ~scanning'
            /\ scanProgress' = scanProgress \/ scanProgress' <= ProgressCap
            /\ scanLog' = scanLog
            /\ result' = result]_vars

(* a video run was stopped during a call and ended at the next loop head *)
C21_Witness ==
    \E r \in DOMAIN runs :
        /\ runs[r].kind = "video" /\ runs[r].end = "cancelled" /\ runs[r].nCalls > 0
        /\ mounted /\ stopScanRef /\ ~scanning /\ scanProgress < 100

(* C22: a step of a video run never lowers progress; after a sample it is   *)
(* the position over the duration in percent, at most 99; it becomes 100    *)
(* only when the positions are exhausted and the flag is not set            *)
C22_VideoProgress ==
    [][\A r \in DOMAIN runs :
         /\ runs[r].kind = "video" /\ runs[r].pc # "done"
         /\ runs'[r].pc # runs[r].pc /\ mounted
         => /\ scanProgress' >= scanProgress
            /\ runs'[r].currentTime > runs[r].currentTime /\ scanProgress' # 100
               => scanProgress' = Min(Round(runs[r].currentTime * 100, runs[r].duration),
                                      ProgressCap)
            /\ scanProgress' = 100 /\ scanProgress # 100
               => runs'[r].currentTime >= runs'[r].duration /\ ~stopScanRef]_vars

(* C23: a found verdict with confidence at or below the threshold does not  *)
(* end a video or live run: a log entry is added for it, nothing is stored, *)
(* no status changes and the run goes on to its next sample                 *)
C23_WeakVerdictLoggedAndSkipped ==
    [][\A r \in DOMAIN runs :
         /\ runs[r].kind \in {"video", "stream"} /\ mounted
         /\ MatchReturns(r, Analysis(TRUE, 1, AcceptThreshold, Box, "model"))
         => /\ result' = result /\ people' = people
            /\ runs'[r].end # "accepted"
            /\ Len(scanLog') > Len(scanLog)]_vars

(* the entries written since the latest trigger: those above its AUTO-START *)
SinceTrigger ==
    LET starts == { i \in DOMAIN scanLog : scanLog[i].tag = "AUTO-START" }
    IN  IF starts = {} THEN << >>
        ELSE SubSeq(scanLog, 1, (CHOOSE i \in starts : \A j \in starts : i <= j) - 1)

(* C24: the per-sample entries written since the latest trigger carry       *)
(* strictly increasing sample indices, the newest entry first               *)
C24_SamplesLoggedInOrder ==
    LET log == SinceTrigger
        samples == { i \in DOMAIN log : log[i].tag \in {"Scanning Frame", "Live Cycle"} }
    IN  \A i, j \in samples : i < j => log[i].n > log[j].n

(* C25: a sample whose capture fails is never sent: a video run skips it    *)
(* and moves to the next position; an image run ends not scanning with the  *)
(* error entry, and neither stores a result nor changes a status            *)
C25_CaptureFailureSkipsSample ==
    [][\A r \in DOMAIN runs :
         /\ /\ runs[r].kind = "video" /\ runs[r].pc = "seek" /\ runs'[r].pc # "seek"
            /\ ~captureFrame("video")
            => /\ runs'[r].nCalls = runs[r].nCalls
               /\ runs'[r].currentTime = runs[r].currentTime + interval
               /\ result' = result /\ people' = people
         /\ /\ runs[r].kind = "image" /\ runs[r].pc = "imgDelay" /\ runs'[r].pc # "imgDelay"
            /\ imageRef /\ ~captureFrame("image")
            => /\ runs'[r].pc = "done" /\ runs'[r].nCalls = 0
               /\ ~scanning'
               /\ scanLog' = << Entry("Error: Capture failed.", 0, 0) >> \o scanLog
               /\ result' = result /\ people' = people]_vars

(* an image run ended on a failed capture *)
C25_Witness ==
    \E r \in DOMAIN runs :
        /\ runs[r].kind = "image" /\ runs[r].end = "captureFailed" /\ runs[r].nCalls = 0
        /\ ~scanning /\ scanLog[1].tag = "Error: Capture failed." /\ ~result.set

(* C26: a refused camera request adds the error entry and starts nothing:   *)
(* the refusal leaves scanning, the runs and the pending auto-start as they *)
(* were, and the auto-start armed by a request that was then refused (no    *)
(* stream granted since, none pending) starts no run when it fires          *)
C26_CameraFailureStartsNothing ==
    [][/\ CameraDenied /\ mounted
          => /\ scanLog' = << Entry("Error: Could not access webcam.", 0, 0) >> \o scanLog
             /\ scanning' = scanning /\ runs' = runs /\ timer' = timer
       /\ AutoStartFires /\ timer.request = nextStream /\ camPending = 0
          => runs' = runs /\ scanning' = scanning]_vars

(* C27: a video run that found the duration unknown is not failed by it:    *)
(* when its wait ends it reads the duration again and goes on to sample,    *)
(* from position 0, the timeline of the video it scans (or stops because it *)
(* was cancelled or its element is gone)                                    *)
C27_UnknownDurationRetried ==
    [][\A r \in DOMAIN runs :
         /\ runs[r].kind = "video" /\ runs[r].pc = "metaWait" /\ runs'[r].pc # "metaWait"
         /\ fileDuration # NaN
         => /\ runs'[r].duration = fileDuration
            /\ \/ runs'[r].pc = "seek" /\ runs'[r].currentTime = 0
               \/ runs'[r].pc = "done" /\ (stopScanRef \/ ~videoRef)]_vars

(* C28: a seek wait ends on the seeked event or on the timeout, so a run    *)
(* waiting on a seek is never stalled, even when the source never signals:  *)
(* it goes on until it is terminal (or the sample budget of the model is    *)
(* used up)                                                                 *)
C28_SeekWaitNeverStalls ==
    (\E r \in DOMAIN runs : At(r, "video", "seek"))
        ~> ((\A r \in DOMAIN runs : runs[r].pc = "done") \/ ~Budget)

(* a run over a video whose metadata never loaded, whose element therefore  *)
(* never fired seeked, has gone through seek waits and is terminal          *)
C28_Witness ==
    \E r \in DOMAIN runs :
        /\ runs[r].kind = "video" /\ videoDuration = NaN
        /\ runs[r].duration = FallbackDuration /\ runs[r].currentTime > interval
        /\ runs[r].pc = "done"

(* C29: dismissing a stored result sets the result to none and changes      *)
(* nothing else: scanning, progress, position, log, media source, runs and  *)
(* the status of every record, a record already FOUND included, stay        *)
C29_DismissClearsOnlyResult ==
    [][Dismiss => /\ result' = NullResult
                  /\ UNCHANGED << scanning, scanProgress, currentScanTime, scanLog,
                                  mediaUrl, mediaType, streamRef, srcObject, people,
                                  stopScanRef, timer, runs >>]_vars

(* the result of an accepted verdict has been dismissed: the confirmation   *)
(* still heads the log and the matched record is still FOUND                *)
C29_Witness ==
    /\ mounted /\ ~scanning /\ ~result.set
    /\ Len(scanLog) > 0 /\ scanLog[1].tag = "MATCH CONFIRMED"
    /\ scanProgress > 0
    /\ \E r \in DOMAIN runs :
         /\ runs[r].end = "accepted"
         /\ \E i \in DOMAIN people :
              /\ people[i].status = "FOUND"
              /\ \E j \in DOMAIN runs[r].roster : runs[r].roster[j].id = people[i].id

C32_SelectedSourceScanned ==
    /\ mounted /\ mediaType # "none" /\ (mediaType = "stream" \/ mediaUrl # 0)
    /\ missingPeople(people) # << >>
    /\ ~timer.on /\ camPending = 0 /\ Alive = {}
    => \E r \in DOMAIN runs : runs[r].kind = mediaType

(* C33: while a live run lasts in the camera view, the live video element   *)
(* is bound to the stream that was granted, so its cycles capture frames    *)
(* of that stream                                                           *)
C33_LiveElementBound ==
    \A r \in DOMAIN runs :
        runs[r].kind = "stream" /\ runs[r].pc # "done" /\ webcamRef
        => srcObject # 0 /\ srcObject = streamRef

(* C34: whenever the stored result is a found one, its person identifier    *)
(* names a record of the store whose status is FOUND                        *)
C34_FoundResultNamesFoundRecord ==
    result.set /\ result.found
    => \E i \in DOMAIN people :
         people[i].id = result.personId /\ people[i].status = "FOUND"

(* C35: a refused camera request leaves the selected source and its run     *)
(* state as they were: the refusal changes only the log, by one error       *)
(* entry, and once no request is pending a selected file still has its URL  *)
C35_CameraFailureKeepsSource ==
    [][CameraDenied /\ mounted
       => /\ UNCHANGED << mediaUrl, mediaType, scanProgress, result, scanning >>
          /\ scanLog' = << Entry("Error: Could not access webcam.", 0, 0) >> \o scanLog
          /\ mediaType' \in {"image", "video"} /\ camPending' = 0 => mediaUrl' # 0]_vars

(* C36: a run over a video of duration d dispatches at most ceil(d / 2)     *)
(* calls (stated for the file that has been the only source so far)         *)
C36_VideoCallsBounded ==
    \A r \in DOMAIN runs :
        runs[r].kind = "video" /\ mediaUrl = 1 /\ fileDuration # NaN
        => runs[r].nCalls <= (fileDuration + interval - 1) \div interval

(* C37: the record list changes only by a new record with status MISSING    *)
(* put in front of it or by a record set to FOUND: no record is removed and *)
(* no record that is FOUND gets another status                              *)
C37_RecordsOnlyAddedOrFound ==
    [][/\ \/ people' = people
          \/ \E id \in {people[i].id : i \in DOMAIN people} :
               people' = [i \in DOMAIN people |->
                            IF people[i].id = id THEN Person(id, "FOUND") ELSE people[i]]
          \/ /\ Len(people') = Len(people) + 1
             /\ people'[1].status = "MISSING"
             /\ \A i \in DOMAIN people : people'[1].id # people[i].id
             /\ Tail(people') = people
       /\ \A i \in DOMAIN people :
             people[i].status = "FOUND"
             => \E j \in DOMAIN people' : people'[j] = people[i]]_vars

(* a record was reported after a run had set record 1 to FOUND *)
C37_Witness ==
    /\ Len(people) = 3 /\ people[1] = Person(NewId, "MISSING")
    /\ people[2] = Person(1, "FOUND")
    /\ \E r \in DOMAIN runs : runs[r].end = "accepted"

(* C38: once the scan component is unmounted, no run dispatches a call and  *)
(* no run requests a status change of a record                              *)
C38_UnmountedRunIsSilent ==
    [][~mounted
       => /\ \A r \in DOMAIN runs : runs'[r].nCalls = runs[r].nCalls
          /\ people' # people => handleSubmit]_vars

====
